---- MODULE Spec2Model ----
(***************************************************************************)
(* Model of library/dellemc/idrac/idrac_syslog.py: one invocation of the   *)
(* idrac_syslog module (main and run_setup_idrac_syslog).  The SDK and the *)
(* transport are opaque collaborators: each of their calls either returns  *)
(* a value or raises an exception, chosen nondeterministically.            *)
(***************************************************************************)
EXTENDS Integers, Sequences, FiniteSets, TLC

VARIABLES pc, syslog, check_mode, use_redfish, session, calls, msg, changed,
          exc, raisedAt, reports

vars == <<pc, syslog, check_mode, use_redfish, session, calls, msg, changed,
          exc, raisedAt, reports>>

(* ---------------------------- bounds ----------------------------------- *)

\* number of distinct exception message texts the collaborators may raise
MaxText == 2

(* ---------------------------- values ----------------------------------- *)

None == "None"

NoChangesLiteral == "No changes found to commit!"

SyslogChoices == {"Enabled", "Disabled"}

\* exception classes, each with its base class
Parent ==
  [c \in {"HTTPError", "URLError", "OSError", "SSLValidationError",
          "ConnectionError", "RuntimeError", "KeyError", "ImportError",
          "ValueError", "TypeError", "AttributeError", "UnboundLocalError",
          "Exception"} |->
     CASE c = "HTTPError" -> "URLError"
       [] c = "URLError" -> "OSError"
       [] c = "SSLValidationError" -> "ConnectionError"
       [] OTHER -> "Exception"]

RECURSIVE IsSubclass(_, _)
IsSubclass(c, base) ==
  IF c = base THEN TRUE
  ELSE IF c = "Exception" THEN FALSE
  ELSE IsSubclass(Parent[c], base)

\* bodies an HTTPError may carry, as token sequences
Bodies ==
  { <<"{", "code", ":", "GEN1234", "}">>,
    <<"{", "}">>,
    <<"<html>">>,
    <<>> }

\* json.load on an error body: a flat JSON object is decoded to its set of
\* key/value pairs, anything else does not decode
JsonLoad(b) ==
  IF Len(b) = 2 /\ b[1] = "{" /\ b[2] = "}"
    THEN [ok |-> TRUE, value |-> {}]
  ELSE IF Len(b) = 5 /\ b[1] = "{" /\ b[3] = ":" /\ b[5] = "}"
    THEN [ok |-> TRUE, value |-> {<<b[2], b[4]>>}]
  ELSE [ok |-> FALSE, value |-> {}]

NoExc == [cls |-> "none", text |-> 0, body |-> <<>>]

\* classes the SDK or the transport may raise
RaisableClasses ==
  {"HTTPError", "URLError", "OSError", "SSLValidationError", "ConnectionError",
   "RuntimeError", "KeyError", "ImportError", "ValueError", "TypeError",
   "AttributeError"}

Exceptions ==
  [cls : RaisableClasses \ {"HTTPError"}, text : 1..MaxText, body : {<<>>}]
    \cup [cls : {"HTTPError"}, text : 1..MaxText, body : Bodies]

\* str(err): the message text of the exception
Str(e) == e.text

Unbound == [type |-> "unbound", Status |-> None, Message |-> None]

NoneResult == [type |-> "NoneType", Status |-> None, Message |-> None]

\* values a setter or is_change_applicable may return: a dict with or
\* without Status and Message, or no dict at all
Results ==
  [type : {"dict"},
   Status : {"Success", "Failed", None},
   Message : {NoChangesLiteral, "Successfully Completed", None}]
    \cup {NoneResult}

\* dict.get(key): the value, or None when the key is missing
Get(d, k) == d[k]

NoSetter == "none"

Setters == {"enable_syslog", "disable_syslog"}

Call(op, apply, raised, ret) ==
  [op |-> op, apply |-> apply, raised |-> raised, ret |-> ret]

Report(fn, keys, str, dict, ch, unreach, info) ==
  [fn |-> fn, keys |-> keys, msg_str |-> str, msg_dict |-> dict,
   changed |-> ch, unreachable |-> unreach, error_info |-> info]

(* ---------------------------- initial state ---------------------------- *)

Init ==
  /\ pc = "start"
  /\ syslog \in SyslogChoices
  /\ check_mode \in BOOLEAN
  /\ use_redfish = FALSE
  /\ session = "none"
  /\ calls = <<>>
  /\ msg = Unbound
  /\ changed = FALSE
  /\ exc = NoExc
  /\ raisedAt = "none"
  /\ reports = <<>>

(* ---------------------------- main: the session ------------------------ *)

\* iDRACConnection.__enter__: the handle of a connected session
Connect == "open"

\* iDRACConnection.__exit__: the session is disconnected
Disconnect(s) == "closed"

\* with iDRACConnection(module.params) as idrac: opening either yields the
\* session or raises; an exception raised here meets no __exit__
OpenSession ==
  /\ pc = "start"
  /\ \/ /\ session' = Connect
        /\ pc' = "create_share"
        /\ UNCHANGED <<exc, raisedAt>>
     \/ \E e \in Exceptions :
          /\ exc' = e
          /\ raisedAt' = "open"
          /\ pc' = "except"
          /\ UNCHANGED session
  /\ UNCHANGED <<syslog, check_mode, use_redfish, calls, msg, changed, reports>>

(* ---------------------------- run_setup_idrac_syslog ------------------- *)

\* idrac.use_redfish = True; upd_share = file_share_manager.create_share_obj(...)
CreateShare ==
  /\ pc = "create_share"
  /\ use_redfish' = TRUE
  /\ \/ /\ calls' = Append(calls, Call("create_share_obj", FALSE, FALSE, Unbound))
        /\ pc' = "set_liason"
        /\ UNCHANGED <<exc, raisedAt>>
     \/ \E e \in Exceptions :
          /\ calls' = Append(calls, Call("create_share_obj", FALSE, TRUE, Unbound))
          /\ exc' = e
          /\ raisedAt' = "create_share_obj"
          /\ pc' = "raised"
  /\ UNCHANGED <<syslog, check_mode, session, msg, changed, reports>>

SetLiasonShareSwallow ==
  /\ pc = "set_liason"
  /\ \/ /\ calls' = Append(calls, Call("set_liason_share", FALSE, FALSE, Unbound))
        /\ pc' = "setter"
        /\ UNCHANGED <<exc, raisedAt>>
     \/ \E e \in Exceptions :
          /\ calls' = Append(calls, Call("set_liason_share", FALSE, TRUE, Unbound))
          /\ pc' = "setter"
          /\ UNCHANGED <<exc, raisedAt>>
  /\ UNCHANGED <<syslog, check_mode, use_redfish, session, msg, changed, reports>>

\* idrac.config_mgr.set_liason_share(upd_share)
SetLiasonShare ==
  /\ pc = "set_liason"
  /\ \/ /\ calls' = Append(calls, Call("set_liason_share", FALSE, FALSE, Unbound))
        /\ pc' = "setter"
        /\ UNCHANGED <<exc, raisedAt>>
     \/ \E e \in Exceptions :
          /\ calls' = Append(calls, Call("set_liason_share", FALSE, TRUE, Unbound))
          /\ exc' = e
          /\ raisedAt' = "set_liason_share"
          /\ pc' = "raised"
  /\ UNCHANGED <<syslog, check_mode, use_redfish, session, msg, changed, reports>>

CheckModeSetterSwapped(s) ==
  IF s = "Enabled" THEN "disable_syslog"
  ELSE IF s = "Disabled" THEN "enable_syslog"
  ELSE NoSetter

\* the if/elif on module.params['syslog'] of the check_mode branch
CheckModeSetter(s) ==
  IF s = "Enabled" THEN "enable_syslog"
  ELSE IF s = "Disabled" THEN "disable_syslog"
  ELSE NoSetter

ApplySetterNoElif(s) ==
  IF s = "Enabled" THEN "enable_syslog"
  ELSE NoSetter

\* the if/elif on module.params['syslog'] of the else branch
ApplySetter(s) ==
  IF s = "Enabled" THEN "enable_syslog"
  ELSE IF s = "Disabled" THEN "disable_syslog"
  ELSE NoSetter

ApplyChangesAlways(check) == TRUE

\* apply_changes=False in check mode, the setter's default (apply) otherwise
ApplyChanges(check) == IF check THEN FALSE ELSE TRUE

\* check mode: the setter is called with apply_changes=False and its return
\* value is dropped; when neither branch of the if/elif is taken no call is
\* made and control reaches is_change_applicable
CallSetterCheckMode ==
  /\ pc = "setter"
  /\ check_mode
  /\ LET op == CheckModeSetter(syslog) IN
       IF op = NoSetter
         THEN /\ pc' = "query"
              /\ UNCHANGED <<calls, exc, raisedAt>>
         ELSE \/ \E r \in Results :
                   /\ calls' = Append(calls, Call(op, ApplyChanges(check_mode), FALSE, r))
                   /\ pc' = "query"
                   /\ UNCHANGED <<exc, raisedAt>>
              \/ \E e \in Exceptions :
                   /\ calls' = Append(calls, Call(op, ApplyChanges(check_mode), TRUE, Unbound))
                   /\ exc' = e
                   /\ raisedAt' = op
                   /\ pc' = "raised"
  /\ UNCHANGED <<syslog, check_mode, use_redfish, session, msg, changed, reports>>

\* normal mode: msg is what the setter returns; when neither branch of the
\* if/elif is taken msg stays unbound and "return msg" raises
CallSetterApply ==
  /\ pc = "setter"
  /\ ~check_mode
  /\ LET op == ApplySetter(syslog) IN
       IF op = NoSetter
         THEN /\ exc' = [cls |-> "UnboundLocalError", text |-> 1, body |-> <<>>]
              /\ raisedAt' = "return"
              /\ pc' = "raised"
              /\ UNCHANGED <<calls, msg>>
         ELSE \/ \E r \in Results :
                   /\ calls' = Append(calls, Call(op, ApplyChanges(check_mode), FALSE, r))
                   /\ msg' = r
                   /\ pc' = "inspect"
                   /\ UNCHANGED <<exc, raisedAt>>
              \/ \E e \in Exceptions :
                   /\ calls' = Append(calls, Call(op, ApplyChanges(check_mode), TRUE, Unbound))
                   /\ exc' = e
                   /\ raisedAt' = op
                   /\ pc' = "raised"
                   /\ UNCHANGED msg
  /\ UNCHANGED <<syslog, check_mode, use_redfish, session, changed, reports>>

\* msg = idrac.config_mgr.is_change_applicable()
IsChangeApplicable ==
  /\ pc = "query"
  /\ \/ \E r \in Results :
          /\ calls' = Append(calls, Call("is_change_applicable", FALSE, FALSE, r))
          /\ msg' = r
          /\ pc' = "inspect"
          /\ UNCHANGED <<exc, raisedAt>>
     \/ \E e \in Exceptions :
          /\ calls' = Append(calls, Call("is_change_applicable", FALSE, TRUE, Unbound))
          /\ exc' = e
          /\ raisedAt' = "is_change_applicable"
          /\ pc' = "raised"
          /\ UNCHANGED msg
  /\ UNCHANGED <<syslog, check_mode, use_redfish, session, changed, reports>>

(* ---------------------------- main: the result ------------------------- *)

ChangedOnSuccess(m) == Get(m, "Status") = "Success"

\* changed = False; Status "Success" makes it True, unless Message is the
\* literal "No changes found to commit!"
Changed(m) ==
  IF Get(m, "Status") = "Success"
    THEN IF Get(m, "Message") = NoChangesLiteral THEN FALSE ELSE TRUE
    ELSE FALSE

\* msg.get(...) inside the with block; a msg that is no dict has no get
InspectResult ==
  /\ pc = "inspect"
  /\ IF msg.type = "dict"
       THEN /\ changed' = Changed(msg)
            /\ pc' = "with_exit"
            /\ UNCHANGED <<exc, raisedAt>>
       ELSE /\ exc' = [cls |-> "AttributeError", text |-> 1, body |-> <<>>]
            /\ raisedAt' = "inspect"
            /\ pc' = "raised"
            /\ UNCHANGED changed
  /\ UNCHANGED <<syslog, check_mode, use_redfish, session, calls, msg, reports>>

WithExitNormalLeak ==
  /\ pc = "with_exit"
  /\ pc' = "report"
  /\ UNCHANGED <<syslog, check_mode, use_redfish, session, calls, msg, changed,
                 exc, raisedAt, reports>>

\* the with block is left normally: __exit__ releases the session
WithExitNormal ==
  /\ pc = "with_exit"
  /\ session' = Disconnect(session)
  /\ pc' = "report"
  /\ UNCHANGED <<syslog, check_mode, use_redfish, calls, msg, changed, exc,
                 raisedAt, reports>>

WithExitExceptionLeak ==
  /\ pc = "raised"
  /\ pc' = "except"
  /\ UNCHANGED <<syslog, check_mode, use_redfish, session, calls, msg, changed,
                 exc, raisedAt, reports>>

\* an exception leaves the with block: __exit__ releases the session and the
\* exception goes on to the except clauses
WithExitException ==
  /\ pc = "raised"
  /\ session' = Disconnect(session)
  /\ pc' = "except"
  /\ UNCHANGED <<syslog, check_mode, use_redfish, calls, msg, changed, exc,
                 raisedAt, reports>>

(* ---------------------------- main: the except clauses ----------------- *)

GenericClasses ==
  {"RuntimeError", "SSLValidationError", "ConnectionError", "KeyError",
   "ImportError", "ValueError", "TypeError"}

ExceptClausesURLErrorFirst ==
  << [classes |-> {"URLError"}, handler |-> "exit_unreachable"],
     [classes |-> {"HTTPError"}, handler |-> "fail_error_info"],
     [classes |-> GenericClasses, handler |-> "fail_msg"] >>

ExceptClausesURLErrorGeneric ==
  << [classes |-> {"HTTPError"}, handler |-> "fail_error_info"],
     [classes |-> GenericClasses \cup {"URLError"}, handler |-> "fail_msg"] >>

ExceptClausesNoTypeError ==
  << [classes |-> {"HTTPError"}, handler |-> "fail_error_info"],
     [classes |-> {"URLError"}, handler |-> "exit_unreachable"],
     [classes |-> GenericClasses \ {"TypeError"}, handler |-> "fail_msg"] >>

\* the except clauses of main, in source order, each with what its body does
ExceptClauses ==
  << [classes |-> {"HTTPError"}, handler |-> "fail_error_info"],
     [classes |-> {"URLError"}, handler |-> "exit_unreachable"],
     [classes |-> GenericClasses, handler |-> "fail_msg"] >>

Matches(c, i) == \E base \in ExceptClauses[i].classes : IsSubclass(c, base)

\* the body of the first clause that matches the class of the exception,
\* "none" when no clause matches
SelectClause(c) ==
  IF \E i \in 1..Len(ExceptClauses) : Matches(c, i)
    THEN ExceptClauses[CHOOSE i \in 1..Len(ExceptClauses) :
                         /\ Matches(c, i)
                         /\ \A j \in 1..(i - 1) : ~Matches(c, j)].handler
    ELSE "none"

\* except HTTPError: fail_json(msg=str(err), error_info=json.load(err));
\* json.load raises ValueError inside the handler when the body does not decode
ExceptHTTPError ==
  /\ pc = "except"
  /\ SelectClause(exc.cls) = "fail_error_info"
  /\ IF JsonLoad(exc.body).ok
       THEN /\ reports' = Append(reports,
                 Report("fail_json", {"msg", "error_info"}, Str(exc), Unbound,
                        FALSE, FALSE, JsonLoad(exc.body).value))
            /\ pc' = "done"
            /\ UNCHANGED <<exc, raisedAt>>
       ELSE /\ exc' = [cls |-> "ValueError", text |-> 1, body |-> <<>>]
            /\ raisedAt' = "handler"
            /\ pc' = "escaped"
            /\ UNCHANGED reports
  /\ UNCHANGED <<syslog, check_mode, use_redfish, session, calls, msg, changed>>

\* except URLError: exit_json(msg=str(err), unreachable=True)
ExceptURLError ==
  /\ pc = "except"
  /\ SelectClause(exc.cls) = "exit_unreachable"
  /\ reports' = Append(reports,
       Report("exit_json", {"msg", "unreachable"}, Str(exc), Unbound,
              FALSE, TRUE, {}))
  /\ pc' = "done"
  /\ UNCHANGED <<syslog, check_mode, use_redfish, session, calls, msg, changed,
                 exc, raisedAt>>

\* except (RuntimeError, ..., TypeError): fail_json(msg=str(e))
ExceptGeneric ==
  /\ pc = "except"
  /\ SelectClause(exc.cls) = "fail_msg"
  /\ reports' = Append(reports,
       Report("fail_json", {"msg"}, Str(exc), Unbound, FALSE, FALSE, {}))
  /\ pc' = "done"
  /\ UNCHANGED <<syslog, check_mode, use_redfish, session, calls, msg, changed,
                 exc, raisedAt>>

\* no clause matches: the exception leaves main
Uncaught ==
  /\ pc = "except"
  /\ SelectClause(exc.cls) = "none"
  /\ pc' = "escaped"
  /\ UNCHANGED <<syslog, check_mode, use_redfish, session, calls, msg, changed,
                 exc, raisedAt, reports>>

\* module.exit_json(msg=msg, changed=changed)
ExitSuccess ==
  /\ pc = "report"
  /\ reports' = Append(reports,
       Report("exit_json", {"msg", "changed"}, 0, msg, changed, FALSE, {}))
  /\ pc' = "done"
  /\ UNCHANGED <<syslog, check_mode, use_redfish, session, calls, msg, changed,
                 exc, raisedAt>>

Next ==
  \/ OpenSession
  \/ CreateShare
  \/ SetLiasonShare
  \/ CallSetterCheckMode
  \/ CallSetterApply
  \/ IsChangeApplicable
  \/ InspectResult
  \/ WithExitNormal
  \/ WithExitException
  \/ ExceptHTTPError
  \/ ExceptURLError
  \/ ExceptGeneric
  \/ Uncaught
  \/ ExitSuccess

Spec == Init /\ [][Next]_vars

(* ---------------------------- properties ------------------------------- *)

Terminal == pc \in {"done", "escaped"}

SetterCalls == {i \in DOMAIN calls : calls[i].op \in Setters}

LiasonAttached ==
  \E j \in DOMAIN calls : calls[j].op = "set_liason_share" /\ ~calls[j].raised

SuccessReports == {i \in DOMAIN reports : "changed" \in reports[i].keys}

\* C1: every result reported by an invocation that ends without an exception
\* has changed = TRUE exactly when its Status is "Success" and its Message is
\* not "No changes found to commit!"
C1_ChangedIffSuccessAndChanges ==
  \A i \in SuccessReports :
    reports[i].changed <=>
      (/\ reports[i].msg_dict.Status = "Success"
       /\ reports[i].msg_dict.Message # NoChangesLiteral)

C1_Witness ==
  /\ pc = "done"
  /\ exc = NoExc
  /\ SuccessReports = {1}
  /\ reports[1].msg_dict.Status = "Success"
  /\ reports[1].msg_dict.Message = NoChangesLiteral
  /\ reports[1].changed = FALSE

\* C2: in both modes, desired state "Enabled" never calls disable_syslog and
\* "Disabled" never calls enable_syslog; the setter called is a function of
\* the desired state alone
C2_SetterFollowsDesiredState ==
  \A i \in SetterCalls :
    /\ syslog = "Enabled" => calls[i].op = "enable_syslog"
    /\ syslog = "Disabled" => calls[i].op = "disable_syslog"

C2_Witness ==
  /\ pc = "done"
  /\ check_mode
  /\ syslog = "Disabled"
  /\ \E i \in SetterCalls : calls[i].op = "disable_syslog"

\* C3 (as stated): at a terminal outcome exactly one setter call was issued,
\* whatever path the invocation took
C3_ExactlyOneSetterOnEveryPath ==
  Terminal => Cardinality(SetterCalls) = 1

\* C3 (amended): at most one setter call is issued, chosen by the desired
\* state alone; at a terminal outcome the number of setter calls is 1 exactly
\* when set_liason_share returned, and 0 when opening the session, share
\* creation or set_liason_share raised
C3_OneSetterOnceShareAttached ==
  /\ Cardinality(SetterCalls) <= 1
  /\ \A i \in SetterCalls :
       calls[i].op = IF syslog = "Enabled" THEN "enable_syslog" ELSE "disable_syslog"
  /\ Terminal => (Cardinality(SetterCalls) = 1 <=> LiasonAttached)

C3_Witness ==
  /\ pc = "done"
  /\ raisedAt = "disable_syslog"
  /\ Len(reports) = 1
  /\ reports[1].fn = "fail_json"
  /\ Cardinality(SetterCalls) = 1

\* C4: in check mode no setter is called with apply enabled, and the msg of
\* the result is the value is_change_applicable returned, unmodified
C4_DryRunDoesNotApply ==
  check_mode =>
    /\ \A i \in SetterCalls : ~calls[i].apply
    /\ \A i \in SuccessReports :
         /\ Len(calls) > 0
         /\ calls[Len(calls)].op = "is_change_applicable"
         /\ ~calls[Len(calls)].raised
         /\ reports[i].msg_dict = calls[Len(calls)].ret

C4_Witness ==
  /\ pc = "done"
  /\ check_mode
  /\ SuccessReports = {1}
  /\ reports[1].msg_dict.Status = "Success"
  /\ reports[1].changed
  /\ \E i \in SetterCalls :
       /\ ~calls[i].apply
       /\ ~calls[i].raised
       /\ calls[i].ret # reports[1].msg_dict

\* C5: once control has left the with block (normally or by an exception,
\* caught or not) the session is no longer open
C5_SessionReleasedOnEveryExit ==
  pc \in {"except", "report", "done", "escaped"} => session # "open"

C5_Witness ==
  /\ pc = "escaped"
  /\ exc.cls = "AttributeError"
  /\ raisedAt \in Setters
  /\ session = "closed"

\* C6 (as stated): a URLError or a ConnectionError raised while the session
\* is opened ends in exit_json with unreachable=True
C6_ConnectivityErrorsUnreachable ==
  (Terminal /\ raisedAt = "open" /\ exc.cls \in {"URLError", "ConnectionError"})
    => /\ pc = "done"
       /\ Len(reports) = 1
       /\ reports[1].fn = "exit_json"
       /\ reports[1].unreachable

\* C6 (amended): a URLError raised while the session is opened ends in
\* exit_json with unreachable=True; a ConnectionError raised there ends in
\* fail_json with the exception's message; neither leaves main
C6_URLErrorUnreachableConnectionErrorFails ==
  (Terminal /\ raisedAt = "open" /\ exc.cls \in {"URLError", "ConnectionError"})
    => /\ pc = "done"
       /\ Len(reports) = 1
       /\ reports[1].msg_str = exc.text
       /\ exc.cls = "URLError" =>
            /\ reports[1].fn = "exit_json"
            /\ reports[1].keys = {"msg", "unreachable"}
            /\ reports[1].unreachable
       /\ exc.cls = "ConnectionError" =>
            /\ reports[1].fn = "fail_json"
            /\ reports[1].keys = {"msg"}

C6_Witness ==
  /\ pc = "done"
  /\ raisedAt = "open"
  /\ exc.cls = "URLError"
  /\ session = "none"
  /\ reports[1].unreachable

\* C7: an HTTPError with a JSON body, raised anywhere inside the session
\* scope, ends in fail_json whose error_info is the decoded body, never in
\* an unreachable outcome
C7_HTTPErrorFailsWithErrorInfo ==
  (Terminal /\ exc.cls = "HTTPError" /\ JsonLoad(exc.body).ok)
    => /\ pc = "done"
       /\ Len(reports) = 1
       /\ reports[1].fn = "fail_json"
       /\ reports[1].keys = {"msg", "error_info"}
       /\ reports[1].error_info = JsonLoad(exc.body).value
       /\ exc.body = <<"{", "code", ":", "GEN1234", "}">> =>
            reports[1].error_info = {<<"code", "GEN1234">>}
       /\ ~reports[1].unreachable

C7_Witness ==
  /\ pc = "done"
  /\ exc.cls = "HTTPError"
  /\ raisedAt = "is_change_applicable"
  /\ session = "closed"
  /\ reports[1].error_info = {<<"code", "GEN1234">>}

HandledClasses ==
  {"HTTPError", "URLError", "RuntimeError", "SSLValidationError",
   "ConnectionError", "KeyError", "ImportError", "ValueError", "TypeError"}

OneOfThreeOutcomes ==
  /\ pc = "done"
  /\ Len(reports) = 1
  /\ \/ reports[1].fn = "fail_json" /\ reports[1].keys = {"msg", "error_info"}
     \/ reports[1].fn = "exit_json" /\ reports[1].keys = {"msg", "unreachable"}
     \/ reports[1].fn = "fail_json" /\ reports[1].keys = {"msg"}

C9_CallOrder ==
  /\ \A i \in SetterCalls :
       \E j \in 1..(i - 1) : calls[j].op = "set_liason_share" /\ ~calls[j].raised
  /\ \A i \in DOMAIN calls :
       calls[i].op = "is_change_applicable" =>
         /\ check_mode
         /\ \E j \in 1..(i - 1) :
              calls[j].op \in Setters /\ ~calls[j].raised /\ ~calls[j].apply
  /\ (\E j \in DOMAIN calls :
        calls[j].op \in {"create_share_obj", "set_liason_share"} /\ calls[j].raised)
       => \A i \in DOMAIN calls :
            calls[i].op \notin Setters \cup {"is_change_applicable"}

C9_Witness ==
  /\ check_mode
  /\ Len(calls) = 4
  /\ calls[1].op = "create_share_obj"
  /\ calls[2].op = "set_liason_share"
  /\ calls[3].op = "enable_syslog"
  /\ calls[4].op = "is_change_applicable"

\* C10: at most one outcome is ever reported and exactly one on a handled
\* path, no outcome is reported while the session is open, and an outcome
\* with msg and changed is reported only when no exception occurred
C10_OneOutcomeAfterRelease ==
  /\ Len(reports) <= 1
  /\ pc = "done" <=> Len(reports) = 1
  /\ Len(reports) > 0 => session # "open"
  /\ \A i \in DOMAIN reports :
       /\ reports[i].keys \in
            {{"msg", "changed"}, {"msg", "unreachable"}, {"msg", "error_info"}, {"msg"}}
       /\ reports[i].fn = "fail_json" <=> reports[i].keys \in {{"msg", "error_info"}, {"msg"}}
       /\ "changed" \in reports[i].keys =>
            /\ exc = NoExc
            /\ raisedAt = "none"
            /\ reports[i].msg_dict = msg

C10_Witness ==
  /\ pc = "done"
  /\ SuccessReports = {1}
  /\ session = "closed"
  /\ exc = NoExc
  /\ ~check_mode

====
